---- MODULE Spec2Model ----
(***************************************************************************)
(* A model of fiction-dl's FlareSolverr client (Utilities/FlareSolverr.py) *)
(* and of the FFNet extractor's fetch facade (Extractors/ExtractorFFNet.py)*)
(*                                                                         *)
(* The program is single-threaded.  A call of SolveChallenge is modelled   *)
(* one loop iteration per step, so that the order of its requests and      *)
(* waits can be stated; "log" records the network requests and the sleeps  *)
(* of the call in progress (or of the last call).                          *)
(*                                                                         *)
(* Specifications: SolverSpec, SolverFairSpec and TimeoutSpec are calls of *)
(* the FlareSolverr module; Spec is an extractor that scans and extracts a *)
(* story; ChannelSpec is an extractor that scans channels; HeaderSpec is   *)
(* one call of _InternallyScanStory on a story page.                       *)
(***************************************************************************)
EXTENDS Integers, Sequences, FiniteSets, TLC

\* ------------------------------------------------------------------------
\* Bounds of the model.

\* The largest maxRetries argument a SolveChallenge call is given.
MaxRetriesBound == 3
\* The number of distinct session identifiers the service hands out.
NumSessionIDs == 2
\* The number of distinct non-empty page contents the service returns.
NumContents == 2
\* The largest chapter count of a story page, and the longest _chapterURLs.
MaxChapters == 2
MaxChapterURLs == 3
\* The most data-xutime spans of a story header.
MaxSpans == 3
\* The most entries of a listing page.
MaxEntries == 2
\* The largest page index of a "Last" link.
MaxPages == 2
\* The maxTimeout arguments of a SolveChallenge call go up to this many
\* half seconds.
MaxHalfSeconds == 4
\* The probes and warnings of a run are counted up to this.
CountCap == 2

\* ------------------------------------------------------------------------
\* Program constants.

\* time.sleep(2) between attempts.
BackoffSeconds == 2
\* The default of SolveChallenge's maxRetries parameter.
DefaultMaxRetries == 3
\* The default of its maxTimeout parameter (milliseconds), the milliseconds
\* of a second, and the seconds added to the timeout of the POST.
DefaultMaxTimeout == 60000
MillisecondsPerSecond == 1000
TimeoutMargin == 30

\* None / "" : no session, no content.
NoSession == 0
NoContent == 0

SessionIDs == 1..NumSessionIDs
Contents == 1..NumContents

\* ------------------------------------------------------------------------
\* What the network and the solving service may answer.

\* The outcomes of the POST of a request.get:
\*   "ok"        a decoded response with status "ok"; content is
\*               solution.response (NoContent when it is missing or empty);
\*   "error"     a decoded response with another status; sessionMsg tells
\*               whether its message contains "session" (case-insensitive);
\*   "timeout"   requests.exceptions.Timeout;
\*   "exception" any other exception: connection, HTTP status, a body that
\*               is not JSON or not of the shape of the service's responses.
GetOutcomes ==
    [kind : {"ok"}, content : {NoContent} \cup Contents, sessionMsg : {FALSE}]
    \cup [kind : {"error"}, content : {NoContent}, sessionMsg : BOOLEAN]
    \cup [kind : {"timeout", "exception"}, content : {NoContent}, sessionMsg : {FALSE}]

\* The outcomes of the POST of a sessions.create: status "ok" with the
\* session the response carries (NoSession when it carries none), another
\* status, or an exception.
CreateOutcomes ==
    [kind : {"ok"}, session : {NoSession} \cup SessionIDs]
    \cup [kind : {"error", "exception"}, session : {NoSession}]

\* The outcomes of the POST of a sessions.destroy (the response is ignored).
DestroyOutcomes == {"ok", "error", "timeout", "exception"}

\* An entry of the log: a request sent to the service, or a sleep.
\*   sessions.create : session = the cached session when the request is sent,
\*                     kind = the outcome, val = the session of the response
\*   request.get     : session = the session the request carries, kind = the
\*                     outcome, val = the content, flag = sessionMsg,
\*                     n = number of the attempt (from 1)
\*   sessions.destroy: session = the session the request carries
\*   sleep           : val = the seconds slept
Ev(op, session, kind, val, flag, n) ==
    [op |-> op, url |-> <<>>, session |-> session, kind |-> kind, val |-> val,
     flag |-> flag, n |-> n]

VARIABLES
    flaresolverr_session,   \* the module global _flaresolverr_session
    pc,                     \* "idle", or the position inside a call
    frame,                  \* the locals of the SolveChallenge in progress
    call,                   \* the top-level call in progress (or the last)
    log,                    \* the requests and sleeps of that call
    useFlareSolverr,        \* the extractor's _useFlareSolverr
    flareSolverrChecked,    \* its _flareSolverrChecked
    flareSolverrAvailable,  \* its _flareSolverrAvailable
    Story,                  \* its Story (set tells that it is not None)
    chapterURLs,            \* its _chapterURLs
    probes,                 \* the liveness probes sent in this run
    warnings,               \* the warnings printed in this run
    xf,                     \* the locals of the extractor call in progress
    fetched                 \* the URLs that call has passed to _GetSoup

solverVars == <<flaresolverr_session, pc, frame, call, log>>
extractorVars == <<useFlareSolverr, flareSolverrChecked, flareSolverrAvailable,
                   Story, chapterURLs, probes, warnings, xf, fetched>>
vars == <<solverVars, extractorVars>>

\* ------------------------------------------------------------------------
\* FlareSolverr.py

\* CreateSession without the test of the cached session.
CreateSession_NoCacheTest(cache, c) ==
    LET req == Ev("sessions.create", cache, c.kind, c.session, FALSE, 0)
    IN  IF c.kind = "ok"
        THEN [ret |-> c.session, cache |-> c.session, ev |-> <<req>>,
              raised |-> FALSE]
        ELSE [ret |-> NoSession, cache |-> cache, ev |-> <<req>>,
              raised |-> FALSE]

\* CreateSession(port), given the outcome c of its request, should it send
\* one.  Results: ret, the new value of the global, the requests sent.
\* CreateSession that lets a failed creation out as an exception.
CreateSession_Raises(cache, c) ==
    IF cache # NoSession
    THEN [ret |-> cache, cache |-> cache, ev |-> <<>>, raised |-> FALSE]
    ELSE LET req == Ev("sessions.create", cache, c.kind, c.session, FALSE, 0)
         IN  IF c.kind = "ok"
             THEN [ret |-> c.session, cache |-> c.session, ev |-> <<req>>,
                   raised |-> FALSE]
             ELSE [ret |-> NoSession, cache |-> cache, ev |-> <<req>>,
                   raised |-> TRUE]

CreateSession(cache, c) ==
    IF cache # NoSession
    THEN [ret |-> cache, cache |-> cache, ev |-> <<>>, raised |-> FALSE]
    ELSE LET req == Ev("sessions.create", cache, c.kind, c.session, FALSE, 0)
         IN  IF c.kind = "ok"
             THEN [ret |-> c.session, cache |-> c.session, ev |-> <<req>>,
                   raised |-> FALSE]
             ELSE [ret |-> NoSession, cache |-> cache, ev |-> <<req>>,
                   raised |-> FALSE]

\* DestroySession with the reset of the global inside the try block.
DestroySession_ResetInTry(cache, d) ==
    IF cache = NoSession
    THEN [cache |-> cache, ev |-> <<>>, raised |-> FALSE]
    ELSE [cache |-> IF d \in {"ok", "error"} THEN NoSession ELSE cache,
          ev |-> <<Ev("sessions.destroy", cache, d, 0, FALSE, 0)>>,
          raised |-> FALSE]

\* DestroySession(port), given the outcome d of its request.
DestroySession(cache, d) ==
    IF cache = NoSession
    THEN [cache |-> cache, ev |-> <<>>, raised |-> FALSE]
    ELSE [cache |-> NoSession,
          ev |-> <<Ev("sessions.destroy", cache, d, 0, FALSE, 0)>>,
          raised |-> FALSE]

Sleep == Ev("sleep", NoSession, "", BackoffSeconds, FALSE, 0)

\* What a branch of the loop body leaves: the local session, the global,
\* the requests and sleeps it made, and whether the function returned
\* (done, ret) or let an exception out (raised).
Branch(session, cache, ev, done, ret, raised) ==
    [session |-> session, cache |-> cache, ev |-> ev, done |-> done,
     ret |-> ret, raised |-> raised]

\* An ok response that does not end the loop.
OnOkResponse_NoReturn(f, cache, o) ==
    Branch(f.session, cache, <<>>, FALSE, o.content, FALSE)

\* status == "ok": return solution.response.
OnOkResponse(f, cache, o) ==
    Branch(f.session, cache, <<>>, TRUE, o.content, FALSE)

\* A session error that creates a session and goes on with the old one.
OnErrorResponse_KeepLocal(f, cache, o, c) ==
    IF o.sessionMsg
    THEN LET r == CreateSession(NoSession, c)
         IN  Branch(f.session, r.cache, r.ev, FALSE, NoContent, r.raised)
    ELSE Branch(f.session, cache, <<>>, FALSE, NoContent, FALSE)

\* A session error that leaves the global as it is.
OnErrorResponse_NoReset(f, cache, o, c) ==
    IF o.sessionMsg
    THEN LET r == CreateSession(cache, c)
         IN  Branch(r.ret, r.cache, r.ev, FALSE, NoContent, r.raised)
    ELSE Branch(f.session, cache, <<>>, FALSE, NoContent, FALSE)

\* Any other status: log; on a session error reset the global and call
\* CreateSession again.
OnErrorResponse(f, cache, o, c) ==
    IF o.sessionMsg
    THEN LET r == CreateSession(NoSession, c)
         IN  Branch(r.ret, r.cache, r.ev, FALSE, NoContent, r.raised)
    ELSE Branch(f.session, cache, <<>>, FALSE, NoContent, FALSE)

\* A timeout that sleeps after the last attempt too.
OnTimeout_SleepAlways(f, cache) ==
    Branch(f.session, cache, <<Sleep>>, FALSE, NoContent, FALSE)

\* except requests.exceptions.Timeout: sleep unless this was the last attempt.
OnTimeout(f, cache) ==
    Branch(f.session, cache,
           IF f.attempt < f.maxRetries - 1 THEN <<Sleep>> ELSE <<>>,
           FALSE, NoContent, FALSE)

\* No handler for the other exceptions.
OnException_Uncaught(f, cache) ==
    Branch(f.session, cache, <<>>, FALSE, NoContent, TRUE)

\* A handler of the other exceptions that retries at once.
OnException_NoSleep(f, cache) ==
    Branch(f.session, cache, <<>>, FALSE, NoContent, FALSE)

\* except Exception: the same.
OnException(f, cache) ==
    Branch(f.session, cache,
           IF f.attempt < f.maxRetries - 1 THEN <<Sleep>> ELSE <<>>,
           FALSE, NoContent, FALSE)

\* One iteration of the loop of SolveChallenge: f holds the locals
\* (session, attempt, maxRetries), cache the global, o the outcome of the
\* request.get and c the outcome of the sessions.create a session error
\* leads to.
\* The responses to draw for a sessions.create after the outcome o of a
\* request.get: only a failure that names the session sends one.
RecreateOutcomes(o) ==
    IF o.kind = "error" /\ o.sessionMsg
    THEN CreateOutcomes
    ELSE {[kind |-> "error", session |-> NoSession]}

\* The timeout (seconds) of the POST of a request.get.
TransportTimeout(maxTimeout) ==
    maxTimeout \div MillisecondsPerSecond + TimeoutMargin

SolveAttempt(f, cache, o, c) ==
    LET req == Ev("request.get", f.session, o.kind, o.content, o.sessionMsg,
                  f.attempt + 1)
        h == CASE o.kind = "ok" -> OnOkResponse(f, cache, o)
               [] o.kind = "error" -> OnErrorResponse(f, cache, o, c)
               [] o.kind = "timeout" -> OnTimeout(f, cache)
               [] OTHER -> OnException(f, cache)
    IN  [frame |-> [f EXCEPT !.attempt = f.attempt + 1, !.session = h.session,
                             !.timeout = TransportTimeout(f.maxTimeout)],
         cache |-> h.cache, ev |-> <<req>> \o h.ev,
         done |-> h.done, ret |-> h.ret, raised |-> h.raised]

\* SolveChallenge run to its end, as a caller sees it: the set of its
\* possible results from a given value of the global.  A result holds the
\* value returned, the global afterwards, and the number of requests sent to
\* the service.  The loop is the iteration of SolveAttempt.
Requests(ev) == Len(SelectSeq(ev, LAMBDA e : e.op # "sleep"))

SolveStart(cache, maxRetries) ==
    { LET r == CreateSession(cache, c)
      IN  [frame |-> [session |-> r.ret, attempt |-> 0, maxRetries |-> maxRetries,
                      maxTimeout |-> DefaultMaxTimeout, timeout |-> 0],
           cache |-> r.cache, requests |-> Requests(r.ev),
           done |-> r.raised, ret |-> NoContent, raised |-> r.raised]
      : c \in CreateOutcomes }

SolveStep(s) ==
    { LET o == oc[1]
          c == oc[2]
          r == SolveAttempt(s.frame, s.cache, o, c)
      IN  [frame |-> r.frame, cache |-> r.cache,
           requests |-> s.requests + Requests(r.ev),
           done |-> r.done \/ r.raised, ret |-> r.ret, raised |-> r.raised]
      : oc \in UNION {{<<o, c>> : c \in RecreateOutcomes(o)} : o \in GetOutcomes} }

RECURSIVE SolveLoop(_)
SolveLoop(S) ==
    LET running == {s \in S : ~s.done /\ s.frame.attempt < s.frame.maxRetries}
    IN  IF running = {}
        THEN S
        ELSE SolveLoop((S \ running) \cup UNION {SolveStep(s) : s \in running})

SolveChallenge(cache, maxRetries) ==
    { [ret |-> IF s.done THEN s.ret ELSE NoContent, cache |-> s.cache,
       requests |-> s.requests, raised |-> s.raised]
      : s \in SolveLoop(SolveStart(cache, maxRetries)) }

\* ------------------------------------------------------------------------
\* ExtractorFFNet.py

\* An entry of the log made by the extractor:
\*   probe          : the GET of IsFlareSolverrRunning, kind = its outcome
\*   warn           : a warning printed by _CheckFlareSolverr
\*   SolveChallenge : a call of it for url, val = the content returned,
\*                    flag = it sent requests to the service
\*   fallback       : a call of the web session's GetSoup for url, val = soup
\*   GetSoup        : the return of _GetSoup(url), val = the soup
EvX(op, url, kind, val, flag) ==
    [op |-> op, url |-> url, session |-> NoSession, kind |-> kind,
     val |-> val, flag |-> flag, n |-> 0]

Count(ev, op) == Len(SelectSeq(ev, LAMBDA e : e.op = op))

\* The outcomes of the GET of the liveness probe: HTTP 200, another status,
\* a network error (refused, timed out), an answer that is not an HTTP
\* response.  requests.get raises on the last two.
ProbeOutcomes == {"200", "status", "exception", "malformed"}

ProbeRaises(p) == p \in {"exception", "malformed"}

\* IsFlareSolverrRunning without its except clause.
IsFlareSolverrRunning_Uncaught(p) ==
    IF ProbeRaises(p)
    THEN [ret |-> FALSE, raised |-> TRUE]
    ELSE [ret |-> p = "200", raised |-> FALSE]

\* IsFlareSolverrRunning(port), given the outcome p of its GET.
IsFlareSolverrRunning(p) ==
    IF ProbeRaises(p)
    THEN [ret |-> FALSE, raised |-> FALSE]
    ELSE [ret |-> p = "200", raised |-> FALSE]

\* _CheckFlareSolverr that does not record that it has checked.
CheckFlareSolverr_NotRecorded(checked, available, use, p) ==
    IF checked
    THEN [ret |-> available, checked |-> checked, available |-> available,
          ev |-> <<>>]
    ELSE IF ~use
    THEN [ret |-> FALSE, checked |-> FALSE, available |-> FALSE,
          ev |-> <<EvX("warn", <<>>, "not configured", 0, FALSE)>>]
    ELSE LET a == IsFlareSolverrRunning(p).ret
         IN  [ret |-> a, checked |-> FALSE, available |-> a,
              ev |-> <<EvX("probe", <<>>, p, 0, FALSE)>>
                     \o (IF ~a
                         THEN <<EvX("warn", <<>>, "not responding", 0, FALSE)>>
                         ELSE <<>>)]

\* _CheckFlareSolverr, given the outcome p of the probe, should it send one.
CheckFlareSolverr(checked, available, use, p) ==
    IF checked
    THEN [ret |-> available, checked |-> checked, available |-> available,
          ev |-> <<>>]
    ELSE IF ~use
    THEN [ret |-> FALSE, checked |-> TRUE, available |-> FALSE,
          ev |-> <<EvX("warn", <<>>, "not configured", 0, FALSE)>>]
    ELSE LET a == IsFlareSolverrRunning(p).ret
         IN  [ret |-> a, checked |-> TRUE, available |-> a,
              ev |-> <<EvX("probe", <<>>, p, 0, FALSE)>>
                     \o (IF ~a
                         THEN <<EvX("warn", <<>>, "not responding", 0, FALSE)>>
                         ELSE <<>>)]

\* Dates are days since 1970-01-01; NoDate is None.
NoDate == -1
\* GetCurrentDate(): the day of the run.
CurrentDate == 3
SecondsPerDay == 86400

\* The values of a data-xutime attribute: empty; not a number, or a number
\* of a year datetime does not have (ValueError); a number too large for the
\* platform's time_t (OverflowError); a number of seconds.
NoTimestamp == -1
BadTimestamp == -2
HugeTimestamp == -3
Timestamps == {NoTimestamp, BadTimestamp, HugeTimestamp, 86400, 172800}

\* _TimestampToDate catches ValueError and OSError only.
TimestampRaises(ts) == ts = HugeTimestamp

\* _TimestampToDate
TimestampToDate(ts) ==
    IF ts = NoTimestamp THEN NoDate
    ELSE IF ts = BadTimestamp THEN NoDate
    ELSE ts \div SecondsPerDay

\* The header of a story page, as far as _InternallyScanStory reads it:
\*   header        : the element #profile_top is there
\*   lines         : its text has a fourth line
\*   chapters      : the number after "Chapters: " (0: no such field)
\*   words         : the number after "Words: " (0: no such field)
\*   spans         : the data-xutime values of its spans, in document order
\*   textPublished : what _ExtractDateFromText finds for "Published"
\*   textUpdated   : what _ExtractDateFromText finds for "Updated"
\* The spans before the last two all hold the timestamp 0.
SpanLists ==
    UNION { {s \in [1..n -> Timestamps \cup {0}] :
                \A i \in 1..n : (i <= n - 2) <=> (s[i] = 0)}
            : n \in 0..MaxSpans }

\* The dates the text of the header gives for "Published" and for "Updated".
TextPublished == 4
TextUpdated == 5

\* The pages differ only in what _InternallyScanStory reads of them: nothing
\* more of a page without the header, of a header without a fourth line, or
\* of a header without the word count.
StoryDocs ==
    [header : {FALSE}, lines : {FALSE}, chapters : {0}, words : {0},
     spans : {<<>>}, textPublished : {NoDate}, textUpdated : {NoDate}]
    \cup [header : {TRUE}, lines : {FALSE}, chapters : {0}, words : {0},
          spans : {<<>>}, textPublished : {NoDate}, textUpdated : {NoDate}]
    \cup [header : {TRUE}, lines : {TRUE}, chapters : {0}, words : {0},
          spans : {<<>>}, textPublished : {NoDate}, textUpdated : {NoDate}]
    \cup [header : {TRUE}, lines : {TRUE}, chapters : 0..MaxChapters,
          words : {1}, spans : SpanLists,
          textPublished : {NoDate, TextPublished},
          textUpdated : {NoDate, TextUpdated}]

\* The page without the header.
NoDoc ==
    [header |-> FALSE, lines |-> FALSE, chapters |-> 0, words |-> 0,
     spans |-> <<>>, textPublished |-> NoDate, textUpdated |-> NoDate]

NoMetadata ==
    [Title |-> NoContent, DatePublished |-> NoDate, DateUpdated |-> NoDate,
     ChapterCount |-> 0, WordCount |-> 0]

\* Story is None, or a story whose URL holds a story ID or not.
NoStory == [set |-> FALSE, hasID |-> FALSE, Metadata |-> NoMetadata]
InitialStories ==
    {NoStory} \cup [set : {TRUE}, hasID : BOOLEAN, Metadata : {NoMetadata}]

\* The timestamps read from the first two spans instead of the last two.
SpanTimestamps_FirstTwo(spans) ==
    LET n == Len(spans)
    IN  [updated |-> IF n >= 2 THEN spans[1] ELSE NoTimestamp,
         published |-> IF n >= 2 THEN spans[2]
                       ELSE IF n = 1 THEN spans[1] ELSE NoTimestamp]

\* dateUpdatedTimestamp and datePublishedTimestamp, from the spans with a
\* data-xutime attribute.
SpanTimestamps(spans) ==
    LET n == Len(spans)
    IN  [updated |-> IF n >= 2 THEN spans[n - 1] ELSE NoTimestamp,
         published |-> IF n >= 1 THEN spans[n] ELSE NoTimestamp]

\* "if not datePublished": the current date, with a warning.
PublishedOrToday(published) ==
    IF published = NoDate
    THEN [date |-> CurrentDate,
          ev |-> <<EvX("warn", <<>>, "date published", 0, FALSE)>>]
    ELSE [date |-> published, ev |-> <<>>]

\* _InternallyScanStory(URL, soup), up to "Set the metadata": what it reads
\* of doc, the header of the soup.  kind is "failed" when it returns False,
\* "raised" when an exception ends it, "read" when it has the metadata.  Of
\* the title, the author and the summary the model keeps that they are set.
\* ev holds the warning of the published date.
ReadHeader(doc) ==
    LET ended(kind, ev) == [kind |-> kind, Metadata |-> NoMetadata, ev |-> ev]
    IN
    IF ~doc.header
    THEN ended("failed", <<>>)
    ELSE IF ~doc.lines
    THEN ended("raised", <<>>)
    ELSE IF doc.words = 0
    THEN ended("failed", <<>>)
    ELSE
    LET ts == SpanTimestamps(doc.spans)
        dateUpdatedTimestamp == ts.updated
        datePublishedTimestamp == ts.published
        published ==
            IF datePublishedTimestamp # NoTimestamp
            THEN TimestampToDate(datePublishedTimestamp)
            ELSE doc.textPublished
        datePublished == PublishedOrToday(published)
        dateUpdated ==
            IF dateUpdatedTimestamp # NoTimestamp
            THEN TimestampToDate(dateUpdatedTimestamp)
            ELSE doc.textUpdated
        chapterCount == IF doc.chapters # 0 THEN doc.chapters ELSE 1
    IN  IF TimestampRaises(datePublishedTimestamp)
        THEN ended("raised", <<>>)
        ELSE IF TimestampRaises(dateUpdatedTimestamp)
        THEN ended("raised", datePublished.ev)
        ELSE [kind |-> "read",
              Metadata |->
                [Title |-> 1,
                 DatePublished |-> datePublished.date,
                 DateUpdated |-> IF dateUpdated # NoDate THEN dateUpdated
                                 ELSE datePublished.date,
                 ChapterCount |-> chapterCount,
                 WordCount |-> doc.words],
              ev |-> datePublished.ev]

\* _InternallyScanStory from "Set the metadata" on, h being what it has
\* read of the header.
SetMetadata(story, urls, h) ==
    LET scanned == [story EXCEPT !.Metadata = h.Metadata]
        chapterCount == h.Metadata.ChapterCount
    IN  IF h.kind # "read"
        THEN [ret |-> FALSE, raised |-> h.kind = "raised", Story |-> story,
              chapterURLs |-> urls, ev |-> h.ev]
        ELSE IF ~story.hasID
        THEN [ret |-> FALSE, raised |-> FALSE, Story |-> scanned,
              chapterURLs |-> urls, ev |-> h.ev]
        ELSE [ret |-> TRUE, raised |-> FALSE, Story |-> scanned,
              chapterURLs |-> urls \o [i \in 1..chapterCount |-> <<"chapter", i>>],
              ev |-> h.ev]

\* _InternallyScanStory(URL, soup)
InternallyScanStory(story, urls, doc) ==
    SetMetadata(story, urls, ReadHeader(doc))

\* What _InternallyScanStory reads of the pages a scan can fetch.
Headers == {ReadHeader(doc) : doc \in StoryDocs}

\* The arguments ExtractChapter is called with.
ChapterIndexes == (0 - 1)..(MaxChapterURLs + 1)

\* ExtractChapter(index), up to the URL it fetches: url is <<>> when it
\* returns None before fetching.  A negative list index counts from the end.
ChapterURL(story, urls, index) ==
    IF index > Len(urls)
    THEN [url |-> <<>>, raised |-> ~story.set]
    ELSE IF index >= 1
    THEN [url |-> urls[index], raised |-> FALSE]
    ELSE IF Len(urls) + index >= 1
    THEN [url |-> urls[Len(urls) + index], raised |-> FALSE]
    ELSE [url |-> <<>>, raised |-> TRUE]

\* A chapter page: the element #storytext is there or not.
ChapterDocs == [storytext : BOOLEAN]

\* _InternallyExtractChapter(URL, soup): the chapter (named by its page) or
\* None.
InternallyExtractChapter(page, doc) ==
    IF doc.storytext THEN page ELSE NoContent

\* The URLs ScanChannel is called with: empty or of another host; of a
\* collection; with "/community/" but no name and number; of an author;
\* any other URL of the site.
ChannelURLs == {"invalid", "community", "malformed community", "user", "other"}

\* A listing entry: one without an anchor or without its href; one whose
\* href holds no story ID; one with a story ID.  Every entry of a listing is
\* of another story: the ID of the k-th entry of page p is <<p, k>>.
EntryKinds == {"no anchor", "no id", "story"}
EntryLists ==
    UNION {[1..n -> EntryKinds] : n \in 0..MaxEntries}

\* A loop over the entries that ends at the first entry it cannot read.
StoryIDsOf_Break(page, entries) ==
    LET ids[k \in 0..Len(entries)] ==
            IF k = 0 THEN <<>>
            ELSE IF entries[k] = "story" /\ Len(ids[k - 1]) = k - 1
            THEN Append(ids[k - 1], <<page, k>>)
            ELSE ids[k - 1]
    IN  ids[Len(entries)]

\* The story IDs a listing page adds to storyIDs: the loop over its entries,
\* which goes on to the next entry at one it cannot read.
StoryIDsOf(page, entries) ==
    LET ids[k \in 0..Len(entries)] ==
            IF k = 0 THEN <<>>
            ELSE IF entries[k] = "story"
            THEN Append(ids[k - 1], <<page, k>>)
            ELSE ids[k - 1]
    IN  ids[Len(entries)]

\* What ScanChannel returns: None, or a list of story URLs.
NoList == [list |-> FALSE, urls |-> <<>>]
List(ids) == [list |-> TRUE, urls |-> ids]

\* The "Last" link of a collection page: none; one without href (KeyError);
\* one whose URL has at most 8 parts; one whose page segment is not a number
\* (ValueError); one with a page index.
LastLinks ==
    [kind : {"none", "no href", "short", "not a number"}, index : {0}]
    \cup [kind : {"index"}, index : 0..MaxPages]

LastPageIndex(link) ==
    CASE link.kind = "index" -> [index |-> link.index, raised |-> FALSE]
      [] link.kind \in {"no href", "not a number"} -> [index |-> 1, raised |-> TRUE]
      [] OTHER -> [index |-> 1, raised |-> FALSE]

\* The locals of an extractor call.
NoXF ==
    [cont |-> "", url |-> <<>>, soup |-> NoContent, index |-> 0,
     storyIDs |-> <<>>, pageIndex |-> 0, lastPageIndex |-> 0,
     entries |-> <<>>, doc |-> NoDoc]

\* ------------------------------------------------------------------------
\* The state after start-up.

NoFrame == [session |-> NoSession, attempt |-> 0, maxRetries |-> 0,
            maxTimeout |-> 0, timeout |-> 0]
NoCall == [op |-> "none", pre |-> NoSession, arg |-> 0, ret |-> 0,
           status |-> "returned"]

Status(raised) == IF raised THEN "raised" ELSE "returned"

\* ------------------------------------------------------------------------
\* The calls of the FlareSolverr module, made one after the other.

\* The call is over: its locals and its result are dropped.
CallOver ==
    /\ pc = "done"
    /\ pc' = "idle"
    /\ call' = NoCall
    /\ log' = <<>>
    /\ frame' = NoFrame
    /\ xf' = NoXF
    /\ fetched' = <<>>
    /\ UNCHANGED <<flaresolverr_session, useFlareSolverr,
                   flareSolverrChecked, flareSolverrAvailable, Story,
                   chapterURLs, probes, warnings>>

\* A call of CreateSession.
CallCreateSession ==
    /\ pc = "idle"
    /\ \E c \in CreateOutcomes :
         LET r == CreateSession(flaresolverr_session, c)
         IN  /\ flaresolverr_session' = r.cache
             /\ log' = r.ev
             /\ call' = [op |-> "CreateSession", pre |-> flaresolverr_session,
                         arg |-> 0, ret |-> r.ret, status |-> Status(r.raised)]
    /\ pc' = "done"
    /\ UNCHANGED <<frame, extractorVars>>

\* A call of DestroySession.
CallDestroySession ==
    /\ pc = "idle"
    /\ \E d \in DestroyOutcomes :
         LET r == DestroySession(flaresolverr_session, d)
         IN  /\ flaresolverr_session' = r.cache
             /\ log' = r.ev
             /\ call' = [op |-> "DestroySession", pre |-> flaresolverr_session,
                         arg |-> 0, ret |-> 0, status |-> Status(r.raised)]
    /\ pc' = "done"
    /\ UNCHANGED <<frame, extractorVars>>

\* A call of IsFlareSolverrRunning.
CallIsFlareSolverrRunning ==
    /\ pc = "idle"
    /\ \E p \in ProbeOutcomes :
         LET r == IsFlareSolverrRunning(p)
         IN  /\ log' = <<Ev("probe", NoSession, p, NoContent, FALSE, 0)>>
             /\ call' = [op |-> "IsFlareSolverrRunning",
                         pre |-> flaresolverr_session, arg |-> 0,
                         ret |-> r.ret, status |-> Status(r.raised)]
    /\ pc' = "done"
    /\ UNCHANGED <<flaresolverr_session, frame, extractorVars>>

\* A call of SolveChallenge(url, port, maxTimeout, maxRetries), up to the
\* loop.
SolveChallengeCall(maxTimeout, maxRetries) ==
    /\ pc = "idle"
    /\ \E c \in CreateOutcomes :
         LET r == CreateSession(flaresolverr_session, c)
         IN  /\ flaresolverr_session' = r.cache
             /\ log' = r.ev
             /\ frame' = [session |-> r.ret, attempt |-> 0,
                          maxRetries |-> maxRetries,
                          maxTimeout |-> maxTimeout, timeout |-> 0]
             /\ call' = [op |-> "SolveChallenge", pre |-> flaresolverr_session,
                         arg |-> maxRetries, ret |-> NoContent,
                         status |-> IF r.raised THEN "raised" ELSE "running"]
             /\ pc' = IF r.raised THEN "done" ELSE "loop"
    /\ UNCHANGED extractorVars

\* A call of SolveChallenge with the default maxTimeout.
SolveChallengeBegin ==
    \E maxRetries \in 0..MaxRetriesBound :
        SolveChallengeCall(DefaultMaxTimeout, maxRetries)

\* One iteration of its loop.
SolveChallengeAttempt ==
    /\ pc = "loop"
    /\ frame.attempt < frame.maxRetries
    /\ \E o \in GetOutcomes : \E c \in RecreateOutcomes(o) :
         LET r == SolveAttempt(frame, flaresolverr_session, o, c)
         IN  /\ flaresolverr_session' = r.cache
             /\ log' = log \o r.ev
             /\ frame' = r.frame
             /\ call' = [call EXCEPT
                           !.ret = r.ret,
                           !.status = IF r.raised THEN "raised"
                                      ELSE IF r.done THEN "returned"
                                      ELSE "running"]
             /\ pc' = IF r.raised \/ r.done THEN "done" ELSE "loop"
    /\ UNCHANGED extractorVars

\* The loop is over: return None.
SolveChallengeExhausted ==
    /\ pc = "loop"
    /\ frame.attempt >= frame.maxRetries
    /\ call' = [call EXCEPT !.ret = NoContent, !.status = "returned"]
    /\ pc' = "done"
    /\ UNCHANGED <<flaresolverr_session, frame, log, extractorVars>>

SolverInit ==
    /\ flaresolverr_session = NoSession
    /\ pc = "idle"
    /\ frame = NoFrame
    /\ call = NoCall
    /\ log = <<>>
    /\ useFlareSolverr = FALSE
    /\ flareSolverrChecked = FALSE
    /\ flareSolverrAvailable = FALSE
    /\ Story = NoStory
    /\ chapterURLs = <<>>
    /\ probes = 0
    /\ warnings = 0
    /\ xf = NoXF
    /\ fetched = <<>>

SolverNext ==
    \/ CallIsFlareSolverrRunning
    \/ CallCreateSession
    \/ CallDestroySession
    \/ SolveChallengeBegin
    \/ SolveChallengeAttempt
    \/ SolveChallengeExhausted
    \/ CallOver

SolverSpec == SolverInit /\ [][SolverNext]_vars

\* The calls of SolveChallenge of one attempt, for the maxTimeout arguments
\* of multiples of half a second.
MaxTimeouts == {500 * k : k \in 0..MaxHalfSeconds} \cup {DefaultMaxTimeout}

SolveChallengeTimed ==
    \E maxTimeout \in MaxTimeouts : SolveChallengeCall(maxTimeout, 1)

TimeoutNext ==
    \/ SolveChallengeTimed
    \/ SolveChallengeAttempt
    \/ SolveChallengeExhausted
    \/ CallOver

TimeoutSpec == SolverInit /\ [][TimeoutNext]_vars

\* A call in progress goes on: the program does not stop inside a loop.
SolverFairSpec ==
    SolverSpec /\ WF_vars(SolveChallengeAttempt) /\ WF_vars(SolveChallengeExhausted)

\* ------------------------------------------------------------------------
\* The calls of the extractor, made one after the other on one extractor.
\* A call that fetches a page stops at _GetSoup ("getsoup", then "fallback")
\* and goes on at "resume" with the soup in xf.soup.  During a call of the
\* extractor, log holds what _CheckFlareSolverr did and the steps of the
\* last _GetSoup.

Min(a, b) == IF a < b THEN a ELSE b

Begin(op, arg) ==
    [op |-> op, pre |-> NoSession, arg |-> arg, ret |-> 0, status |-> "running"]

\* The call in progress returns v.
Return(v) ==
    /\ call' = [call EXCEPT !.ret = v, !.status = "returned"]
    /\ pc' = "done"

\* The call in progress lets an exception out.
Raise ==
    /\ call' = [call EXCEPT !.status = "raised"]
    /\ pc' = "done"

\* A call that ends before it fetches anything: with v, or with an exception.
ReturnAtOnce(op, arg, v) ==
    /\ call' = [Begin(op, arg) EXCEPT !.ret = v, !.status = "returned"]
    /\ pc' = "done"
    /\ xf' = NoXF
    /\ fetched' = <<>>

RaiseAtOnce(op, arg) ==
    /\ call' = [Begin(op, arg) EXCEPT !.status = "raised"]
    /\ pc' = "done"
    /\ xf' = NoXF
    /\ fetched' = <<>>

\* A call calls _GetSoup(url) and will go on at cont; sofar are the URLs it
\* has fetched before.
Fetch(url, cont, locals, sofar) ==
    /\ xf' = [locals EXCEPT !.cont = cont, !.url = url, !.soup = NoContent]
    /\ fetched' = Append(sofar, url)
    /\ pc' = "getsoup"

\* What _GetSoup can see of FlareSolverr.SolveChallenge(url, port), by the
\* value of the global before the call: the value returned, the global
\* afterwards, whether requests were sent, whether an exception came out.
SolveChallengeByCache ==
    [cache \in {NoSession} \cup SessionIDs |->
        { [ret |-> r.ret, cache |-> r.cache, requested |-> r.requests > 0,
           raised |-> r.raised]
          : r \in SolveChallenge(cache, DefaultMaxRetries) }]

\* A test that never takes what SolveChallenge returned.
HasHTML_Never(html) == FALSE

\* _GetSoup's test of what SolveChallenge returned ("if html:").
HasHTML(html) == html # NoContent

\* _GetSoup, when FlareSolverr is configured: SolveChallenge first.
GetSoupSolve ==
    /\ pc = "getsoup"
    /\ useFlareSolverr
    /\ \E r \in SolveChallengeByCache[flaresolverr_session] :
         /\ flaresolverr_session' = r.cache
         /\ IF r.raised
            THEN /\ Raise
                 /\ log' = log \o <<EvX("SolveChallenge", xf.url, "raised",
                                        NoContent, r.requested)>>
                 /\ xf' = xf
            ELSE LET solved == EvX("SolveChallenge", xf.url, "returned", r.ret,
                                   r.requested)
                 IN  IF HasHTML(r.ret)
                     THEN /\ log' = log \o <<solved,
                                             EvX("GetSoup", xf.url, "", r.ret, FALSE)>>
                          /\ xf' = [xf EXCEPT !.soup = r.ret]
                          /\ pc' = "resume"
                          /\ call' = call
                     ELSE /\ log' = log \o <<solved>>
                          /\ xf' = xf
                          /\ pc' = "fallback"
                          /\ call' = call
    /\ UNCHANGED <<frame, useFlareSolverr, flareSolverrChecked,
                   flareSolverrAvailable, Story, chapterURLs, probes, warnings,
                   fetched>>

\* _GetSoup, the last line: the web session's GetSoup, which gives a soup or
\* None.
GetSoupFallback ==
    /\ \/ pc = "fallback"
       \/ pc = "getsoup" /\ ~useFlareSolverr
    /\ \E r \in {NoContent} \cup Contents :
         /\ log' = log \o <<EvX("fallback", xf.url, "", r, FALSE),
                            EvX("GetSoup", xf.url, "", r, FALSE)>>
         /\ xf' = [xf EXCEPT !.soup = r]
    /\ pc' = "resume"
    /\ UNCHANGED <<flaresolverr_session, frame, call, useFlareSolverr,
                   flareSolverrChecked, flareSolverrAvailable, Story,
                   chapterURLs, probes, warnings, fetched>>

\* ScanStory, up to its call of _GetSoup.
ScanStoryBegin ==
    /\ pc = "idle"
    /\ Len(chapterURLs) + MaxChapters <= MaxChapterURLs
    /\ IF ~Story.set
       THEN /\ ReturnAtOnce("ScanStory", 0, FALSE)
            /\ log' = <<>>
            /\ UNCHANGED <<flareSolverrChecked, flareSolverrAvailable,
                           probes, warnings>>
       ELSE \E p \in ProbeOutcomes :
              LET r == CheckFlareSolverr(flareSolverrChecked,
                                         flareSolverrAvailable,
                                         useFlareSolverr, p)
              IN  /\ flareSolverrChecked' = r.checked
                  /\ flareSolverrAvailable' = r.available
                  /\ probes' = Min(probes + Count(r.ev, "probe"), CountCap)
                  /\ warnings' = Min(warnings + Count(r.ev, "warn"), CountCap)
                  /\ log' = r.ev
                  /\ call' = Begin("ScanStory", 0)
                  /\ Fetch(<<"story">>, "ScanStory", NoXF, <<>>)
    /\ UNCHANGED <<flaresolverr_session, frame, useFlareSolverr, Story,
                   chapterURLs>>

\* ScanStory, from the soup on.
ScanStoryResume ==
    /\ pc = "resume"
    /\ xf.cont = "ScanStory"
    /\ IF xf.soup = NoContent
       THEN Return(FALSE) /\ UNCHANGED <<Story, chapterURLs, log>>
       ELSE \E h \in Headers :
              LET r == SetMetadata(Story, chapterURLs, h)
              IN  /\ Story' = r.Story
                  /\ chapterURLs' = r.chapterURLs
                  /\ log' = log \o r.ev
                  /\ IF r.raised THEN Raise ELSE Return(r.ret)
    /\ UNCHANGED <<flaresolverr_session, frame, useFlareSolverr,
                   flareSolverrChecked, flareSolverrAvailable, probes,
                   warnings, xf, fetched>>

\* ExtractChapter(index), up to its call of _GetSoup.
ExtractChapterBegin ==
    /\ pc = "idle"
    /\ \E index \in ChapterIndexes :
         LET r == ChapterURL(Story, chapterURLs, index)
         IN  /\ log' = <<>>
             /\ IF r.raised
                THEN RaiseAtOnce("ExtractChapter", index)
                ELSE IF r.url = <<>>
                THEN ReturnAtOnce("ExtractChapter", index, NoContent)
                ELSE /\ call' = Begin("ExtractChapter", index)
                     /\ Fetch(r.url, "ExtractChapter", NoXF, <<>>)
    /\ UNCHANGED <<flaresolverr_session, frame, useFlareSolverr,
                   flareSolverrChecked, flareSolverrAvailable, Story,
                   chapterURLs, probes, warnings>>

\* ExtractChapter, from the soup on.
ExtractChapterResume ==
    /\ pc = "resume"
    /\ xf.cont = "ExtractChapter"
    /\ IF xf.soup = NoContent
       THEN Return(NoContent)
       ELSE \E doc \in ChapterDocs :
              Return(InternallyExtractChapter(xf.soup, doc))
    /\ UNCHANGED <<flaresolverr_session, frame, log, useFlareSolverr,
                   flareSolverrChecked, flareSolverrAvailable, Story,
                   chapterURLs, probes, warnings, xf, fetched>>

\* ScanChannel(URL), up to its first call of _GetSoup.
ScanChannelBegin ==
    /\ pc = "idle"
    /\ log' = <<>>
    /\ \E u \in ChannelURLs :
         CASE u = "user" ->
                /\ call' = Begin("ScanChannel", 0)
                /\ Fetch(<<"user">>, "ScanUser", NoXF, <<>>)
           [] u = "community" ->
                /\ call' = Begin("ScanChannel", 0)
                /\ Fetch(<<"page", 1>>, "CollectionFirst", NoXF, <<>>)
           [] OTHER -> ReturnAtOnce("ScanChannel", 0, NoList)
    /\ UNCHANGED <<flaresolverr_session, frame, useFlareSolverr,
                   flareSolverrChecked, flareSolverrAvailable, Story,
                   chapterURLs, probes, warnings>>

\* ScanChannel of an author's page, from the soup on.
ScanUserResume ==
    /\ pc = "resume"
    /\ xf.cont = "ScanUser"
    /\ IF xf.soup = NoContent
       THEN Return(NoList) /\ xf' = xf
       ELSE \E entries \in EntryLists :
              LET ids == StoryIDsOf(0, entries)
              IN  /\ Return(List(ids))
                  /\ xf' = [xf EXCEPT !.storyIDs = ids, !.entries = entries]
    /\ UNCHANGED <<flaresolverr_session, frame, log, useFlareSolverr,
                   flareSolverrChecked, flareSolverrAvailable, Story,
                   chapterURLs, probes, warnings, fetched>>

\* _ScanCollection, from the soup of the first page to the loop.
CollectionFirstResume ==
    /\ pc = "resume"
    /\ xf.cont = "CollectionFirst"
    /\ IF xf.soup = NoContent
       THEN Return(NoList) /\ UNCHANGED <<xf, fetched, log>>
       ELSE \E link \in LastLinks :
              LET r == LastPageIndex(link)
              IN  IF r.raised
                  THEN Raise /\ UNCHANGED <<xf, fetched, log>>
                  ELSE IF r.index >= 1
                  THEN /\ Fetch(<<"page", 1>>, "CollectionPage",
                                [xf EXCEPT !.pageIndex = 1,
                                           !.lastPageIndex = r.index,
                                           !.storyIDs = <<>>],
                                fetched)
                       /\ call' = call
                       /\ log' = <<>>
                  ELSE Return(List(<<>>)) /\ UNCHANGED <<xf, fetched, log>>
    /\ UNCHANGED <<flaresolverr_session, frame, useFlareSolverr,
                   flareSolverrChecked, flareSolverrAvailable, Story,
                   chapterURLs, probes, warnings>>

\* _ScanCollection, one iteration of the loop from the soup on.
CollectionPageResume ==
    /\ pc = "resume"
    /\ xf.cont = "CollectionPage"
    /\ IF xf.soup = NoContent
       THEN Return(NoList) /\ UNCHANGED <<xf, fetched, log>>
       ELSE \E entries \in EntryLists :
              LET ids == xf.storyIDs \o StoryIDsOf(xf.pageIndex, entries)
              IN  IF xf.pageIndex < xf.lastPageIndex
                  THEN /\ Fetch(<<"page", xf.pageIndex + 1>>, "CollectionPage",
                                [xf EXCEPT !.pageIndex = xf.pageIndex + 1,
                                           !.storyIDs = ids,
                                           !.entries = entries],
                                fetched)
                       /\ call' = call
                       /\ log' = <<>>
                  ELSE /\ Return(List(ids))
                       /\ xf' = [xf EXCEPT !.storyIDs = ids,
                                           !.entries = entries]
                       /\ UNCHANGED <<fetched, log>>
    /\ UNCHANGED <<flaresolverr_session, frame, useFlareSolverr,
                   flareSolverrChecked, flareSolverrAvailable, Story,
                   chapterURLs, probes, warnings>>

\* The state after the construction of the extractor (and its Initialize,
\* which sets Story, when it was called).
Init ==
    /\ flaresolverr_session = NoSession
    /\ pc = "idle"
    /\ frame = NoFrame
    /\ call = NoCall
    /\ log = <<>>
    /\ useFlareSolverr \in BOOLEAN
    /\ flareSolverrChecked = FALSE
    /\ flareSolverrAvailable = FALSE
    /\ Story \in InitialStories
    /\ chapterURLs = <<>>
    /\ probes = 0
    /\ warnings = 0
    /\ xf = NoXF
    /\ fetched = <<>>

\* The calls that scan and extract a story.
Next ==
    \/ ScanStoryBegin
    \/ ScanStoryResume
    \/ ExtractChapterBegin
    \/ ExtractChapterResume
    \/ GetSoupSolve
    \/ GetSoupFallback
    \/ CallOver

Spec == Init /\ [][Next]_vars

\* A call of _InternallyScanStory(URL, soup) on an initialized extractor that
\* has scanned nothing yet: xf.doc is the header of the soup.
InternallyScanStoryCall ==
    /\ pc = "parse"
    /\ LET r == InternallyScanStory(Story, chapterURLs, xf.doc)
       IN  /\ Story' = r.Story
           /\ chapterURLs' = r.chapterURLs
           /\ log' = r.ev
           /\ IF r.raised THEN Raise ELSE Return(r.ret)
    /\ UNCHANGED <<flaresolverr_session, frame, useFlareSolverr,
                   flareSolverrChecked, flareSolverrAvailable, probes,
                   warnings, xf, fetched>>

HeaderInit ==
    /\ flaresolverr_session = NoSession
    /\ pc = "parse"
    /\ frame = NoFrame
    /\ call = Begin("InternallyScanStory", 0)
    /\ log = <<>>
    /\ useFlareSolverr \in BOOLEAN
    /\ flareSolverrChecked = FALSE
    /\ flareSolverrAvailable = FALSE
    /\ Story \in InitialStories \ {NoStory}
    /\ chapterURLs = <<>>
    /\ probes = 0
    /\ warnings = 0
    /\ \E doc \in StoryDocs : xf = [NoXF EXCEPT !.doc = doc]
    /\ fetched = <<>>

HeaderNext == InternallyScanStoryCall

HeaderSpec == HeaderInit /\ [][HeaderNext]_vars

\* The calls of ScanChannel.  It reads and writes none of the extractor's
\* attributes but _useFlareSolverr: the extractor it runs on is one that
\* scans channels.
ChannelInit ==
    /\ Init
    /\ Story = NoStory

ChannelNext ==
    \/ ScanChannelBegin
    \/ ScanUserResume
    \/ CollectionFirstResume
    \/ CollectionPageResume
    \/ GetSoupSolve
    \/ GetSoupFallback
    \/ CallOver

ChannelSpec == ChannelInit /\ [][ChannelNext]_vars

\* ------------------------------------------------------------------------
\* Properties of the FlareSolverr module.

\* The positions of the log that hold a request.get.
GetIdx == {i \in 1..Len(log) : log[i].op = "request.get"}
SleepIdx == {i \in 1..Len(log) : log[i].op = "sleep"}
CreateIdx == {i \in 1..Len(log) : log[i].op = "sessions.create"}
OkIdx == {i \in GetIdx : log[i].kind = "ok"}

InSolve == call.op = "SolveChallenge"
SolveReturned == InSolve /\ call.status = "returned"

\* C1: a SolveChallenge call with maxRetries >= 1 whose every attempt timed
\* out has issued exactly maxRetries request.get, has slept 2 seconds exactly
\* maxRetries - 1 times, each time between two consecutive attempts and never
\* after the last one, and returns None.
C1_AllTimeouts ==
    (SolveReturned /\ call.arg >= 1
        /\ \A i \in GetIdx : log[i].kind = "timeout")
    => /\ Cardinality(GetIdx) = call.arg
       /\ Cardinality(SleepIdx) = call.arg - 1
       /\ \A i \in SleepIdx :
            /\ log[i].val = 2
            /\ i > 1 /\ log[i - 1].op = "request.get"
            /\ i < Len(log) /\ log[i + 1].op = "request.get"
       /\ call.ret = NoContent

C1_Witness ==
    /\ SolveReturned /\ call.arg = 3
    /\ Cardinality(GetIdx) = 3
    /\ \A i \in GetIdx : log[i].kind = "timeout"

\* C2: when attempt k < maxRetries receives a non-ok response whose message
\* names the session, the next request is a sessions.create sent with the
\* cached session cleared; the cache then holds what the creation gave;
\* attempt k+1 carries the created session (none if the creation failed), and
\* if attempt k+1 receives an ok response the call returns its content.
C2_SessionRecreated ==
    InSolve =>
    \A i \in GetIdx :
        (log[i].kind = "error" /\ log[i].flag /\ log[i].n < call.arg)
        => /\ i < Len(log)
           /\ log[i + 1].op = "sessions.create"
           /\ log[i + 1].session = NoSession
           /\ i + 1 = Len(log) =>
                flaresolverr_session =
                    (IF log[i + 1].kind = "ok" THEN log[i + 1].val ELSE NoSession)
           /\ \A j \in GetIdx :
                log[j].n = log[i].n + 1
                => /\ j > i + 1
                   /\ \A m \in (i + 2)..(j - 1) : log[m].op # "sessions.create"
                   /\ log[j].session =
                        (IF log[i + 1].kind = "ok" THEN log[i + 1].val ELSE NoSession)
                   /\ log[j].kind = "ok"
                        => call.status = "returned" /\ call.ret = log[j].val

C2_Witness ==
    /\ SolveReturned /\ call.arg = 3
    /\ \E i, j \in GetIdx :
        /\ log[i].n = 1 /\ log[j].n = 2
        /\ log[i].kind = "error" /\ log[i].flag
        /\ log[i].session # NoSession
        /\ log[i + 1].op = "sessions.create" /\ log[i + 1].kind = "ok"
        /\ log[j].session = log[i + 1].val
        /\ log[j].session # log[i].session
        /\ log[j].kind = "ok" /\ log[j].val # NoContent
        /\ call.ret = log[j].val

\* C3: no request.get follows an ok response; a call that returns content
\* returns the content of its first (and only) ok response, and a call in
\* which no attempt received an ok response returns None.
C3_OnlySuccessExit ==
    InSolve =>
    /\ \A i \in OkIdx : \A j \in GetIdx : j <= i
    /\ call.status = "returned" =>
         /\ call.ret # NoContent =>
              /\ OkIdx # {}
              /\ call.ret = log[CHOOSE i \in OkIdx : \A j \in OkIdx : i <= j].val
         /\ OkIdx = {} => call.ret = NoContent

C3_Witness ==
    /\ SolveReturned
    /\ call.ret # NoContent
    /\ \E i \in OkIdx : log[i].n = 2 /\ call.ret = log[i].val
    /\ \E i \in GetIdx : log[i].n = 1 /\ log[i].kind = "error"

\* C4: whatever the outcomes of the attempts, a SolveChallenge call issues
\* at most maxRetries request.get, raises nothing, returns None when all its
\* attempts are used up without an ok response, and always returns.
C4_BoundedTotal ==
    /\ [](InSolve =>
            /\ Cardinality(GetIdx) <= call.arg
            /\ \A i \in GetIdx : log[i].n <= call.arg
            /\ call.status # "raised"
            /\ (call.status = "returned" /\ OkIdx = {})
                 => call.ret = NoContent /\ Cardinality(GetIdx) = call.arg)
    /\ (InSolve /\ call.status = "running") ~> (InSolve /\ call.status = "returned")

C4_Witness ==
    /\ SolveReturned /\ call.arg = 3 /\ call.ret = NoContent
    /\ Cardinality(GetIdx) = 3
    /\ \E i, j, k \in GetIdx :
        /\ log[i].kind = "exception"
        /\ log[j].kind = "error"
        /\ log[k].kind = "timeout"

\* C5 as stated: every failed attempt that is not the last one, a failure
\* response included, is followed by a sleep of 2 seconds before the next
\* attempt, and no sleep follows the last attempt.
C5_Original ==
    InSolve =>
    /\ \A i \in GetIdx :
         (log[i].kind # "ok" /\ log[i].n < call.arg)
         => \E k \in SleepIdx :
              /\ k > i /\ log[k].val = 2
              /\ \A j \in GetIdx : ~(i < j /\ j < k)
    /\ \A k \in SleepIdx :
         k > 1 /\ log[k - 1].op = "request.get" /\ log[k - 1].n < call.arg

\* C5 as amended: an attempt that ends in an exception (a timeout or any
\* other exception of the request) and is not the last one is followed at
\* once by a sleep of 2 seconds; an attempt that ends with a failure response
\* of the service is retried without a sleep; nothing follows the last
\* attempt.
C5_BackoffOnExceptions ==
    InSolve =>
    /\ \A i \in GetIdx :
         /\ (log[i].kind \in {"timeout", "exception"} /\ log[i].n < call.arg)
              => i < Len(log) /\ log[i + 1].op = "sleep" /\ log[i + 1].val = 2
         /\ (log[i].kind \in {"timeout", "exception"} /\ log[i].n >= call.arg)
              => i = Len(log)
         /\ log[i].kind = "error"
              => \A k \in SleepIdx : k > i => \E j \in GetIdx : i < j /\ j < k
    /\ \A k \in SleepIdx :
         /\ k > 1 /\ log[k - 1].op = "request.get"
         /\ log[k - 1].kind \in {"timeout", "exception"}
         /\ log[k - 1].n < call.arg

C5_Witness ==
    /\ SolveReturned /\ call.arg = 3
    /\ \E i, j, k \in GetIdx :
        /\ log[i].n = 1 /\ log[i].kind = "exception" /\ log[i + 1].op = "sleep"
        /\ log[j].n = 2 /\ log[j].kind = "error" /\ log[j + 1].op = "request.get"
        /\ log[k].n = 3 /\ log[k].kind = "exception" /\ k = Len(log)

\* C6: a sessions.create is only ever sent while no session is cached.  A
\* CreateSession call with a cached session returns it, sends nothing and
\* leaves the cache; with an empty cache it sends exactly one sessions.create,
\* caches and returns the session of an ok response, and returns None with
\* the cache still empty on any failure.
C6_CreateOnlyWhenEmpty ==
    /\ \A i \in CreateIdx : log[i].session = NoSession
    /\ call.op = "CreateSession" =>
         /\ call.status = "returned"
         /\ call.pre # NoSession =>
              /\ call.ret = call.pre
              /\ flaresolverr_session = call.pre
              /\ log = <<>>
         /\ call.pre = NoSession =>
              /\ Len(log) = 1 /\ log[1].op = "sessions.create"
              /\ log[1].kind = "ok" =>
                   call.ret = log[1].val /\ flaresolverr_session = log[1].val
              /\ log[1].kind # "ok" =>
                   call.ret = NoSession /\ flaresolverr_session = NoSession

C6_Witness ==
    /\ call.op = "CreateSession"
    /\ call.pre # NoSession
    /\ call.ret = call.pre
    /\ log = <<>>

\* C7: when DestroySession has returned the cache is empty, whatever became
\* of the sessions.destroy request and whether or not a session was cached;
\* DestroySession raises nothing.
C7_DestroyClears ==
    call.op = "DestroySession" =>
        /\ call.status = "returned"
        /\ flaresolverr_session = NoSession
        /\ call.pre = NoSession <=> log = <<>>

C7_Witness ==
    /\ call.op = "DestroySession"
    /\ call.pre # NoSession
    /\ Len(log) = 1 /\ log[1].op = "sessions.destroy"
    /\ log[1].session = call.pre
    /\ log[1].kind = "timeout"

\* ------------------------------------------------------------------------
\* Properties of the extractor's fetch facade.

\* C11: IsFlareSolverrRunning returns True exactly when the GET of the root
\* endpoint was answered with status 200; after a network error, an answer
\* that is no HTTP response, or another status it returns False; it never
\* lets an exception out.
C11_ProbeTotal ==
    call.op = "IsFlareSolverrRunning"
    => /\ call.status = "returned"
       /\ Len(log) = 1 /\ log[1].op = "probe"
       /\ call.ret = (log[1].kind = "200")

C11_Witness ==
    /\ call.op = "IsFlareSolverrRunning"
    /\ log[1].kind = "malformed"
    /\ call.ret = FALSE
    /\ call.status = "returned"

\* A SolveChallenge call whose CreateSession at the start gave no session.
StartedWithoutSession ==
    /\ InSolve
    /\ Len(log) >= 1
    /\ log[1].op = "sessions.create"
    /\ (log[1].kind # "ok" \/ log[1].val = NoSession)

\* The session a sessions.create of the log gave (none when it failed).
CreatedAt(j) == IF log[j].kind = "ok" THEN log[j].val ELSE NoSession

\* C19 as stated: when the creation of the session fails at the start of
\* SolveChallenge, every request.get of the call is sent without a session.
C19_Original ==
    StartedWithoutSession
    => \A i \in GetIdx : log[i].session = NoSession

\* C19: a failed creation of the session at the start does not stop the
\* call: nothing is raised, with maxRetries >= 1 a request.get is sent, and
\* the content of an ok response is returned.  The requests carry no session
\* as long as no later sessions.create, sent after a failure response that
\* names the session, has given one: each request carries what the latest
\* sessions.create before it gave.
C19_SessionlessSolve ==
    StartedWithoutSession
    => /\ call.status # "raised"
       /\ (SolveReturned /\ call.arg >= 1) => GetIdx # {}
       /\ \A i \in GetIdx :
            \E j \in CreateIdx :
               /\ j < i
               /\ \A k \in CreateIdx : k < i => k <= j
               /\ log[i].session = CreatedAt(j)
               /\ j > 1 => /\ log[j - 1].op = "request.get"
                           /\ log[j - 1].kind = "error" /\ log[j - 1].flag
       /\ \A i \in OkIdx : SolveReturned /\ call.ret = log[i].val

\* Two attempts without a session, the second answered with content.
C19_Witness ==
    /\ StartedWithoutSession
    /\ SolveReturned
    /\ call.ret # NoContent
    /\ Cardinality(GetIdx) = 2
    /\ \A i \in GetIdx : log[i].session = NoSession

\* C20 as stated: the timeout given to the transport for a request.get is
\* the requested maxTimeout (milliseconds) and 30 seconds more:
\* transportTimeoutSeconds * 1000 - maxTimeout = 30000.
C20_FixedMargin ==
    (InSolve /\ frame.attempt >= 1)
    => frame.timeout * 1000 - frame.maxTimeout = 30000

\* The steps of the last _GetSoup call: SolveChallenge, fallback, return.
FacadeSteps ==
    SelectSeq(log, LAMBDA e : e.op \in {"SolveChallenge", "fallback", "GetSoup"})

\* C8 as stated: once the check has found the configured service not
\* responding, no fetch invokes SolveChallenge or sends the service a request.
C8_UnavailableSkipsSolver ==
    (useFlareSolverr /\ flareSolverrChecked /\ ~flareSolverrAvailable)
    => \A i \in 1..Len(log) : log[i].op # "SolveChallenge" /\ ~log[i].flag

\* C9: _GetSoup tries its strategies in a fixed order.  With FlareSolverr
\* configured it calls SolveChallenge first; content returned by it becomes
\* the soup and the fallback is not called; when it returns None the fallback
\* is called once, for the same URL, and its result is the result.  Without
\* FlareSolverr configured SolveChallenge is not called and the fallback
\* alone gives the result.
C9_FacadeOrder ==
    LET steps == FacadeSteps
        n == Len(steps)
    IN  /\ \A i \in 1..n : steps[i].url = xf.url
        /\ pc = "getsoup" => n = 0
        /\ pc = "fallback" =>
             /\ useFlareSolverr
             /\ n = 1 /\ steps[1].op = "SolveChallenge"
             /\ steps[1].val = NoContent
        /\ (pc \in {"resume", "done"} /\ n > 0) =>
             /\ steps[n].op = "GetSoup" /\ steps[n].val = xf.soup
             /\ IF useFlareSolverr
                THEN /\ steps[1].op = "SolveChallenge"
                     /\ IF steps[1].val # NoContent
                        THEN n = 2 /\ steps[2].val = steps[1].val
                        ELSE /\ n = 3
                             /\ steps[2].op = "fallback"
                             /\ steps[3].val = steps[2].val
                ELSE /\ n = 2
                     /\ steps[1].op = "fallback"
                     /\ steps[2].val = steps[1].val
        /\ pc = "resume" => n > 0

C9_Witness ==
    /\ pc = "resume"
    /\ useFlareSolverr
    /\ Len(FacadeSteps) = 2
    /\ FacadeSteps[1].op = "SolveChallenge"
    /\ xf.soup = FacadeSteps[1].val
    /\ xf.soup # NoContent

CollectionScanned ==
    /\ call.op = "ScanChannel"
    /\ xf.cont = "CollectionPage"
    /\ pc = "done"
    /\ call.status = "returned"
    /\ call.ret.list

\* C12 as stated: a collection scan in which every fetch succeeds fetches
\* exactly the pages 1, 2, ..., N, each once and in increasing order, N
\* being the page index of the first page's "Last" link, or 1 without one.
C12_PagesOnceInOrder ==
    CollectionScanned
    => fetched = [i \in 1..xf.lastPageIndex |-> <<"page", i>>]

\* C13: in a collection scan a failed fetch of a page ends the scan at that
\* page: None is returned (no list of the stories collected so far) and no
\* later page is fetched.  An entry without its anchor or without a story
\* ID is passed over and never ends the scan: each page adds to the result
\* exactly the IDs of its entries that have one, in the order of the page,
\* after those of the pages before, and the list returned is what the pages
\* added.
C13_AbortOrSkip ==
    /\ [](/\ (call.op = "ScanChannel" /\ pc = "done"
              /\ xf.cont \in {"CollectionFirst", "CollectionPage"}
              /\ xf.soup = NoContent)
             => /\ call.status = "returned"
                /\ call.ret = NoList
                /\ fetched[Len(fetched)] = xf.url
                /\ Len(fetched) = xf.pageIndex + 1
          /\ CollectionScanned
             => /\ call.ret.urls = xf.storyIDs
                /\ xf.pageIndex = xf.lastPageIndex)
    /\ [][(pc = "resume" /\ xf.cont = "CollectionPage" /\ xf.soup # NoContent)
            => LET old == Len(xf.storyIDs)
                   new == SubSeq(xf'.storyIDs, old + 1, Len(xf'.storyIDs))
                   read == {k \in 1..Len(xf'.entries) : xf'.entries[k] = "story"}
               IN  /\ call'.status # "raised"
                   /\ SubSeq(xf'.storyIDs, 1, old) = xf.storyIDs
                   /\ Len(new) = Cardinality(read)
                   /\ \A i \in 1..Len(new) :
                         /\ new[i][1] = xf.pageIndex
                         /\ new[i][2] \in read
                         /\ i > 1 => new[i - 1][2] < new[i][2]
                   /\ IF xf.pageIndex < xf.lastPageIndex
                      THEN pc' = "getsoup" /\ xf'.url = <<"page", xf.pageIndex + 1>>
                      ELSE pc' = "done"]_vars

\* A scan of two pages returned the stories of both, an unreadable entry of
\* the first page before a readable one passed over.
C13_Witness ==
    /\ CollectionScanned
    /\ xf.lastPageIndex = 2
    /\ call.ret.urls = <<<<1, 2>>, <<2, 1>>>>

\* A scan ended by the failed fetch of its second page.
C13_WitnessAbort ==
    /\ call.op = "ScanChannel" /\ pc = "done"
    /\ xf.cont = "CollectionPage"
    /\ xf.soup = NoContent
    /\ xf.pageIndex = 2
    /\ xf.storyIDs # <<>>

\* A ScanStory call that returned True.
StoryScanned ==
    /\ call.op = "ScanStory"
    /\ pc = "done"
    /\ call.status = "returned"
    /\ call.ret

\* C14 as stated: whenever ScanStory has returned True the list of chapter
\* URLs is base/s/<storyID>/1/, ..., base/s/<storyID>/ChapterCount/, one
\* per chapter, after any sequence of ScanStory calls on the extractor.
C14_ChapterURLsExact ==
    StoryScanned
    => chapterURLs = [i \in 1..Story.Metadata.ChapterCount |-> <<"chapter", i>>]

\* ------------------------------------------------------------------------
\* Properties of the reading of a story's header.

\* _InternallyScanStory has set the metadata from the header xf.doc.
HeaderRead ==
    /\ call.op = "InternallyScanStory"
    /\ pc = "done"
    /\ call.status = "returned"
    /\ Story.Metadata # NoMetadata

ValidTimestamp(ts) == ts >= 0

\* C15 as stated: for a header with exactly one span that bears a timestamp,
\* that timestamp is the published date, no update date is taken from
\* anywhere else, and DateUpdated equals DatePublished.
C15_SingleTimestamp ==
    (HeaderRead /\ Len(xf.doc.spans) = 1)
    => /\ Story.Metadata.DateUpdated = Story.Metadata.DatePublished
       /\ ValidTimestamp(xf.doc.spans[1])
          => Story.Metadata.DatePublished = xf.doc.spans[1] \div SecondsPerDay

C17_DatesNeverFail ==
    LET doc == xf.doc
        ts == SpanTimestamps(doc.spans)
        given(t, text) == ValidTimestamp(t) \/ (t = NoTimestamp /\ text # NoDate)
    IN  (call.op = "InternallyScanStory" /\ pc = "done"
            /\ doc.header /\ doc.lines /\ doc.words # 0)
        => /\ call.status = "returned"
           /\ call.ret = Story.hasID
           /\ ~given(ts.published, doc.textPublished)
              => /\ Story.Metadata.DatePublished = CurrentDate
                 /\ \E i \in 1..Len(log) : log[i].op = "warn"
           /\ ~given(ts.updated, doc.textUpdated)
              => Story.Metadata.DateUpdated = Story.Metadata.DatePublished

\* ------------------------------------------------------------------------
\* Properties of the calls of the extractor.

\* C18 as stated: ScanStory, ExtractChapter and ScanChannel always return a
\* value, whatever the fetches give and whatever the documents lack: no
\* exception comes out of a call.
C18_Total ==
    (call.op \in {"ScanStory", "ExtractChapter", "ScanChannel"} /\ pc = "done")
    => call.status = "returned"

\* ------------------------------------------------------------------------
\* The session a request carries and the cached session.

\* The attempts that carried a session and received a failure response whose
\* message names the session.
SessionErrorIdx ==
    {i \in GetIdx : log[i].kind = "error" /\ log[i].flag
                    /\ log[i].session # NoSession}

\* The next request.get of the call in progress carries the cached session
\* or none.
CarriesCached ==
    (pc = "loop" /\ frame.attempt < frame.maxRetries)
    => frame.session \in {NoSession, flaresolverr_session}

\* A sessions.create between the positions i and j of the log returned s.
CreatedBetween(i, j, s) ==
    \E m \in (i + 1)..(j - 1) :
        log[m].op = "sessions.create" /\ log[m].kind = "ok" /\ log[m].val = s

\* C21 as stated: the session a request.get carries is absent or the cached
\* one, and no request.get after a failure response that names the session
\* carries the session of the attempt that received it.
C21_Original ==
    /\ CarriesCached
    /\ InSolve =>
         \A i \in SessionErrorIdx : \A j \in GetIdx :
             j > i => log[j].session # log[i].session

\* C21 (amended): the session a request.get carries is absent or the cached
\* one; after a failure response that names the session S, a request.get
\* carries S, and the cache holds S, only once a later sessions.create has
\* returned S; and the cache takes a new session only from the ok response
\* of a sessions.create the step sends.
C21_CarriedIsCached ==
    /\ [](/\ CarriesCached
          /\ InSolve =>
               \A i \in SessionErrorIdx :
                   /\ \A j \in GetIdx :
                        (j > i /\ log[j].session = log[i].session)
                        => CreatedBetween(i, j, log[i].session)
                   /\ flaresolverr_session = log[i].session
                        => CreatedBetween(i, Len(log) + 1, log[i].session))
    /\ [][flaresolverr_session' \notin {flaresolverr_session, NoSession}
          => \E m \in 1..Len(log') :
                /\ pc # "idle" => m > Len(log)
                /\ log'[m].op = "sessions.create"
                /\ log'[m].kind = "ok"
                /\ log'[m].val = flaresolverr_session']_vars

\* A failure response names the session S, the creation that follows returns
\* S again, and the next attempt carries it.
C21_Witness ==
    /\ InSolve
    /\ \E i \in SessionErrorIdx : \E j \in GetIdx :
         /\ j = i + 2
         /\ log[i + 1].op = "sessions.create" /\ log[i + 1].kind = "ok"
         /\ log[i + 1].val = log[i].session
         /\ log[j].session = log[i].session
         /\ flaresolverr_session = log[i].session

\* ------------------------------------------------------------------------
\* What a failed scan leaves.

\* The step ends a call of ScanStory that returns False.
ScanStoryFails ==
    /\ pc # "done"
    /\ pc' = "done"
    /\ call'.op = "ScanStory"
    /\ call'.status = "returned"
    /\ call'.ret = FALSE

\* C22 as stated: whenever ScanStory returns False (extractor not
\* initialized, fetch failed, header absent, word count absent, or no story
\* ID in the story's URL), the story's metadata and the list of chapter URLs
\* are the same as before the call.
C22_FailedScanChangesNothing ==
    [][ScanStoryFails => (Story' = Story /\ chapterURLs' = chapterURLs)]_vars

\* ------------------------------------------------------------------------
\* The fetches of ExtractChapter.

\* The indexes of the chapters the extractor has located.
LocatedChapters == 1..Len(chapterURLs)

\* C23 as stated: ExtractChapter(index) fetches only the URL of the chapter
\* index, and only when 1 <= index <= the length of the list of chapter
\* URLs; for every other index (zero, negative, larger than the list), and
\* in any call made before a ScanStory has succeeded, it returns None and
\* fetches nothing.
C23_FetchOnlyInRange ==
    call.op = "ExtractChapter"
    => /\ fetched # <<>>
          => /\ call.arg \in LocatedChapters
             /\ fetched = <<chapterURLs[call.arg]>>
       /\ call.arg \notin LocatedChapters
          => /\ pc = "done"
             /\ call.status = "returned"
             /\ call.ret = NoContent
             /\ fetched = <<>>

====
